---- MODULE Spec2Model ----
(***************************************************************************)
(* The decode loop of MOSS_Client.streaming_topk_search                    *)
(* (src/modules/models/MOSS.py), a Python generator, as a state machine.   *)
(*                                                                         *)
(* A tensor of shape (bsz, n) is a sequence of bsz rows, each a sequence   *)
(* of n entries; a tensor of shape (bsz, 1) or (bsz,) is a sequence of bsz *)
(* entries.  Floats are kept in tenths (temperature 0.7 is 7).             *)
(*                                                                         *)
(* The model's logits are opaque: whatever the filters do, the token that  *)
(* torch.multinomial draws can be any token of the vocabulary, because the *)
(* highest-probability token is always kept and the logits are arbitrary.  *)
(***************************************************************************)
EXTENDS Integers, Sequences, FiniteSets, TLC

\* ------------------------------------------------------------------ bounds
\* The largest max_iterations explored.
MaxIter == 3
\* The largest max_time explored; the clock runs to MaxTime + 1.
MaxTime == 1

\* The batch sizes and the stop-pattern lengths explored.
BatchSizes == {1, 2}
StopLens == {1, 2}

\* The token ids of the (abstracted) vocabulary.
Vocab == {1, 2}

\* What a read of uninitialised int64 memory can give.  Any int64 is possible;
\* the window is only ever compared, entry by entry, with the stop pattern,
\* and for every entry of a pattern Vocab holds a value equal to it and a
\* value different from it, so the token ids stand for all of them.
Uninitialized == Vocab

\* past_key_values = None
None == << >>

\* The prompts of the runs explored: one of seqlen 1, one of seqlen 2.
PromptRows == { <<1>>, <<2, 1>> }

\* The attention masks of a prompt row of length n: left-padded, with at
\* least one real token.
PromptMasks(n) == { [k \in 1..n |-> IF k <= p THEN 0 ELSE 1] : p \in 0..(n - 1) }

\* The masks of a batch of b rows of length n; rows are padded to the longest
\* row, so one row at least has no padding.
BatchMasks(b, n) ==
    { m \in [1..b -> PromptMasks(n)] : \E r \in 1..b : m[r] = [k \in 1..n |-> 1] }

\* (temperature, top_k, top_p), temperature and top_p in tenths: the defaults
\* of __init__, a temperature of 0, and a negative top_k with a top_p above 1.
SamplingConfigs == { <<7, 40, 8>>, <<0, 40, 8>>, <<7, 0 - 1, 12>> }

Batches(S) == UNION { [1..b -> S] : b \in BatchSizes }

StopPatterns == UNION { [1..l -> Vocab] : l \in StopLens }

VARIABLES
    pc,                 \* position of the generator
    prompt_ids,         \* the input_ids argument of the call
    prompt_mask,        \* the attention_mask argument of the call
    moss_stopwords,     \* self.moss_stopwords
    max_iterations, max_time, temperature, top_k, top_p,
    bsz, seqlen,        \* self.bsz, self.seqlen
    input_ids, attention_mask, last_token_indices,
    queue_for_moss_stopwords, all_shall_stop, moss_stop,
    generations, start_time, past_key_values,
    i, new_generated_id,
    now,                \* time.time()
    yielded,            \* the snapshots the consumer has received, in order
    fwd,                \* number of calls of infer_ started
    error,              \* the exception the consumer has received
    regulation_start,   \* the regulation_start argument of the call
    range_it,           \* how many elements the iterator of range() has given
    cur_len,
    logit_pos,          \* per row, the index in dim 1 the step's logits are taken at
    infer_call,         \* the arguments of the latest call of infer_
    logits,             \* the logits row a filter or the penalty works on
    model_logits,       \* that row as the model returned it
    sorted_indices,     \* the order torch.sort gave
    min_tokens_to_keep, repetition_penalty,
    data, preds, res    \* forward: the prompt text, the decoded snapshot, the result

params == <<prompt_ids, prompt_mask, moss_stopwords, max_iterations, max_time,
            temperature, top_k, top_p>>

locals == <<bsz, seqlen, input_ids, attention_mask, last_token_indices,
            queue_for_moss_stopwords, all_shall_stop, moss_stop, generations,
            start_time, past_key_values, i, new_generated_id>>

\* The rest of the state of the decode loop.
loop == <<regulation_start, range_it, cur_len, logit_pos, infer_call>>

\* The state of top_k_top_p_filtering, of the repetition penalty and of forward.
pure == <<logits, model_logits, sorted_indices, min_tokens_to_keep,
          repetition_penalty, data, preds, res>>

vars == <<pc, params, locals, now, yielded, fwd, error, loop, pure>>

Terminal == {"STOPPED", "TRUNCATED", "TIMED_OUT", "FAILED"}

\* ------------------------------------------------------- tensor operations
\* Mutant of CatColumn: the column is put in front (torch.cat([col, t])).
CatColumnFront(t, col) == [r \in 1..Len(t) |-> <<col[r]>> \o t[r]]

\* torch.cat([t, col], dim=1) for col of shape (bsz, 1)
CatColumn(t, col) == [r \in 1..Len(t) |-> Append(t[r], col[r])]

\* torch.ones((n, 1)) as a column
Ones(n) == [r \in 1..n |-> 1]

\* attention_mask.sum(1) - 1
RECURSIVE Sum(_)
Sum(s) == IF s = << >> THEN 0 ELSE Head(s) + Sum(Tail(s))

LastTokenIndices(mask) == [r \in 1..Len(mask) |-> Sum(mask[r]) - 1]

\* Mutant of QueueShift: the oldest entry is not dropped (queue, not queue[:, 1:]).
QueueGrow(q, col) == [r \in 1..Len(q) |-> Append(q[r], col[r])]

\* torch.cat([queue[:, 1:], new_generated_id], dim=1)
QueueShift(q, col) ==
    [r \in 1..Len(q) |-> Append(SubSeq(q[r], 2, Len(q[r])), col[r])]

\* The size of dim 1 of a == b for a of shape (bsz, n) and b of shape (m,),
\* by the broadcasting rule (n and m are equal here, or one of them is 1).
BroadcastLen(n, m) == IF n = 1 THEN m ELSE n

\* (queue == moss_stopwords).all(1); .all() of an empty row is True.
StopMatch(q, stopwords) ==
    [r \in 1..Len(q) |->
        \A k \in 1..BroadcastLen(Len(q[r]), Len(stopwords)) :
           q[r][IF Len(q[r]) = 1 THEN 1 ELSE k]
               = stopwords[IF Len(stopwords) = 1 THEN 1 ELSE k]]

\* Mutant of OrInto: the flags are assigned, not accumulated (= for |=).
Overwrite(flags, m) == [r \in 1..Len(flags) |-> m[r]]

\* flags |= m
OrInto(flags, m) == [r \in 1..Len(flags) |-> flags[r] \/ m[r]]

\* Mutant of All: one stopped row is enough (any instead of all).
AnyRow(flags) == \E r \in 1..Len(flags) : flags[r]

\* all_shall_stop.all().item()
All(flags) == \A r \in 1..Len(flags) : flags[r]

\* Mutant of TimeExceeded: the operands of the subtraction are swapped.
TimeExceededSwapped(t, t0, budget) == t0 - t > budget

\* time.time() - start_time > max_time
TimeExceeded(t, t0, budget) == t - t0 > budget

\* Mutant of RangeHasNext: range(max_iterations + 1).
RangeHasNextInclusive(k, n) == k <= n

\* range(int(max_iterations)) has a k-th element
RangeHasNext(k, n) == k < n

\* Mutant of InferInput: the whole running sequence is passed at every step.
InferInputFull(k, ids, new_id) == ids

\* what infer_ is given: input_ids if i == 0 else new_generated_id
InferInput(k, ids, new_id) ==
    IF k = 0 THEN ids ELSE [r \in 1..Len(new_id) |-> <<new_id[r]>>]

\* The cache infer_ returns: the tokens the model has been given so far.
infer_(ids, mask, past) ==
    IF past = None THEN ids ELSE [r \in 1..Len(ids) |-> past[r] \o ids[r]]

\* Mutant of YieldValue: yield new_generated_id (the delta, not the sequence).
YieldDelta(ids, new_id) == [r \in 1..Len(new_id) |-> <<new_id[r]>>]

\* Where the logits of step k are taken: gather at last_token_indices if
\* i == 0, else logits[:, -1, :] (ids is what infer_ was given).
LogitPosition(k, lti, ids) ==
    IF k = 0 THEN lti ELSE [r \in 1..Len(ids) |-> Len(ids[r]) - 1]

\* The step variable after the inner loop "for i in self.moss_stopwords",
\* which runs if cur_len > regulation_start.
Rebound(k, reg, stopwords) ==
    IF k > reg /\ Len(stopwords) > 0 THEN stopwords[Len(stopwords)] ELSE k

\* yield input_ids
YieldValue(ids, new_id) == ids

\* Mutant of StepOutcome: the time check comes before the stop check.
StepOutcomeTimeFirst(stop, expired) ==
    IF expired THEN "TIMED_OUT" ELSE IF stop THEN "STOPPED" ELSE "yield"

\* How one iteration of the loop ends: break, break, or yield.
StepOutcome(stop, expired) ==
    IF stop THEN "STOPPED" ELSE IF expired THEN "TIMED_OUT" ELSE "yield"

\* ------------------------------------------------------------------- Init
\* No filter, penalty or forward call is under way.
PureIdle ==
    /\ logits = << >>
    /\ model_logits = << >>
    /\ sorted_indices = << >>
    /\ min_tokens_to_keep = 1
    /\ repetition_penalty = 11
    /\ data = << >>
    /\ preds = << >>
    /\ res = << >>

\* A call of streaming_topk_search with a stop pattern of the set patterns
\* and a regulation_start of the set regs; the generator has not started.
InitOf(patterns, regs) ==
    /\ pc = "init"
    /\ \E row \in PromptRows :
         /\ prompt_ids \in Batches({row})
         /\ prompt_mask \in BatchMasks(Len(prompt_ids), Len(row))
    /\ moss_stopwords \in patterns
    /\ regulation_start \in regs
    /\ range_it = 0
    /\ cur_len = 0
    /\ logit_pos = << >>
    /\ infer_call = << >>
    /\ PureIdle
    /\ max_iterations \in 0..MaxIter
    /\ max_time \in 0..MaxTime
    /\ \E c \in SamplingConfigs :
         /\ temperature = c[1]
         /\ top_k = c[2]
         /\ top_p = c[3]
    /\ bsz = 0
    /\ seqlen = 0
    /\ input_ids = prompt_ids
    /\ attention_mask = prompt_mask
    /\ last_token_indices = << >>
    /\ queue_for_moss_stopwords = << >>
    /\ all_shall_stop = << >>
    /\ moss_stop = << >>
    /\ generations = << >>
    /\ start_time = 0
    /\ past_key_values = None
    /\ i = 0
    /\ new_generated_id = << >>
    /\ now = 0
    /\ yielded = << >>
    /\ fwd = 0
    /\ error = "none"

\* regulation_start as forward passes it (default_paras).
DefaultRegulationStart == 512

Init == InitOf(StopPatterns, {DefaultRegulationStart})

\* ---------------------------------------------------------------- actions
\* The arguments of the call of infer_ of step k.
InferCall(k) ==
    [input_ids |-> InferInput(k, input_ids, new_generated_id),
     attention_mask |-> attention_mask,
     past_key_values |-> past_key_values]

\* Mutant of LoopHead: the forward pass of the step after this one is started
\* ahead of the consumer (a prefetching producer).
LoopHeadPrefetch(k) ==
    IF RangeHasNext(k, max_iterations)
    THEN /\ i' = k
         /\ range_it' = k + 1
         /\ infer_call' = InferCall(k)
         /\ fwd' = fwd + 2
         /\ pc' = "infer"
    ELSE /\ UNCHANGED <<i, range_it, infer_call, fwd>>
         /\ pc' = "TRUNCATED"

\* The head of the for loop, whose iterator has given k elements, with the
\* call of infer_ that follows it.
LoopHead(k) ==
    IF RangeHasNext(k, max_iterations)
    THEN /\ i' = k
         /\ range_it' = k + 1
         /\ infer_call' = InferCall(k)
         /\ fwd' = fwd + 1
         /\ pc' = "infer"
    ELSE /\ UNCHANGED <<i, range_it, infer_call, fwd>>
         /\ pc' = "TRUNCATED"

\* The consumer's first next(): the body up to the first call of infer_.
Start ==
    /\ pc = "init"
    /\ bsz' = Len(input_ids)
    /\ seqlen' = Len(input_ids[1])
    /\ last_token_indices' = LastTokenIndices(attention_mask)
    /\ queue_for_moss_stopwords' \in
           [1..Len(input_ids) -> [1..Len(moss_stopwords) -> Uninitialized]]
    /\ all_shall_stop' = [r \in 1..Len(input_ids) |-> FALSE]
    /\ moss_stop' = [r \in 1..Len(input_ids) |-> FALSE]
    /\ generations' = [r \in 1..Len(input_ids) |-> <<1>>]
    /\ start_time' = now
    /\ LoopHead(0)
    /\ UNCHANGED <<params, input_ids, attention_mask, past_key_values,
                   new_generated_id, now, yielded, error, regulation_start,
                   cur_len, logit_pos, pure>>

\* The consumer's next() on the generator suspended at the yield.
Resume ==
    /\ pc = "yield"
    /\ LoopHead(range_it)
    /\ UNCHANGED <<params, bsz, seqlen, input_ids, attention_mask,
                   last_token_indices, queue_for_moss_stopwords, all_shall_stop,
                   moss_stop, generations, start_time, past_key_values,
                   new_generated_id, now, yielded, error, regulation_start,
                   cur_len, logit_pos, pure>>

\* Mutant of InferFail: the exception is caught and the forward pass retried.
InferFailRetried ==
    /\ pc = "infer"
    /\ fwd' = fwd + 1
    /\ UNCHANGED <<pc, params, locals, now, yielded, error, loop, pure>>

\* infer_ raises: the exception leaves the generator.
InferFail ==
    /\ pc = "infer"
    /\ pc' = "FAILED"
    /\ error' = "infer_"
    /\ UNCHANGED <<params, locals, now, yielded, fwd, loop, pure>>

\* The cache the call of infer_ under way returns.
Returned ==
    infer_(infer_call.input_ids, infer_call.attention_mask,
           infer_call.past_key_values)

\* infer_ returns, but the probabilities are nan (logits / 0):
\* torch.multinomial raises.
SampleFail ==
    /\ pc = "infer"
    /\ temperature = 0
    /\ past_key_values' = Returned
    /\ logit_pos' = LogitPosition(i, last_token_indices, infer_call.input_ids)
    /\ cur_len' = i
    /\ i' = Rebound(i, regulation_start, moss_stopwords)
    /\ pc' = "FAILED"
    /\ error' = "multinomial"
    /\ UNCHANGED <<params, bsz, seqlen, input_ids, attention_mask,
                   last_token_indices, queue_for_moss_stopwords, all_shall_stop,
                   moss_stop, generations, start_time, new_generated_id,
                   now, yielded, fwd, regulation_start, range_it, infer_call,
                   pure>>

\* infer_ returns and a token is sampled, but self.bsz is not the number of
\* rows of this call: torch.cat of attention_mask and torch.ones((self.bsz, 1))
\* raises.
CatFail ==
    /\ pc = "infer"
    /\ temperature # 0
    /\ bsz # Len(input_ids)
    /\ new_generated_id' \in [1..Len(input_ids) -> Vocab]
    /\ past_key_values' = Returned
    /\ logit_pos' = LogitPosition(i, last_token_indices, infer_call.input_ids)
    /\ cur_len' = i
    /\ i' = Rebound(i, regulation_start, moss_stopwords)
    /\ pc' = "FAILED"
    /\ error' = "cat"
    /\ UNCHANGED <<params, bsz, seqlen, input_ids, attention_mask,
                   last_token_indices, queue_for_moss_stopwords, all_shall_stop,
                   moss_stop, generations, start_time, now, yielded, fwd,
                   regulation_start, range_it, infer_call, pure>>

\* infer_ returns and the rest of the iteration runs, to the break or the yield.
Step ==
    /\ pc = "infer"
    /\ temperature # 0
    /\ bsz = Len(input_ids)
    /\ \E tok \in [1..Len(input_ids) -> Vocab] :
         LET ids    == CatColumn(input_ids, tok)
             queue  == QueueShift(queue_for_moss_stopwords, tok)
             stop   == OrInto(moss_stop, StopMatch(queue, moss_stopwords))
             all    == OrInto(all_shall_stop, stop)
             out    == StepOutcome(All(all),
                                   TimeExceeded(now, start_time, max_time))
         IN  /\ past_key_values' = Returned
             /\ new_generated_id' = tok
             /\ input_ids' = ids
             /\ attention_mask' = CatColumn(attention_mask, Ones(bsz))
             /\ generations' = CatColumn(generations, tok)
             /\ queue_for_moss_stopwords' = queue
             /\ moss_stop' = stop
             /\ all_shall_stop' = all
             /\ pc' = out
             /\ yielded' = IF out = "yield"
                           THEN Append(yielded, YieldValue(ids, tok))
                           ELSE yielded
    /\ logit_pos' = LogitPosition(i, last_token_indices, infer_call.input_ids)
    /\ cur_len' = i
    /\ i' = Rebound(i, regulation_start, moss_stopwords)
    /\ UNCHANGED <<params, bsz, seqlen, last_token_indices, start_time, now,
                   fwd, error, regulation_start, range_it, infer_call, pure>>

\* The wall clock advances while the forward pass runs and while the
\* generator is suspended.
Tick ==
    /\ pc \in {"infer", "yield"}
    /\ now <= MaxTime
    /\ now' = now + 1
    /\ UNCHANGED <<pc, params, locals, yielded, fwd, error, loop, pure>>

\* Another generator of the same client runs its first next() while this one
\* is suspended: line 219 of that call assigns self.bsz and self.seqlen.
\* Its locals are its own frame; the attributes of self are all it shares.
OtherStart ==
    /\ pc = "yield"
    /\ bsz' \in BatchSizes
    /\ seqlen' \in { Len(row) : row \in PromptRows }
    /\ UNCHANGED <<pc, params, input_ids, attention_mask, last_token_indices,
                   queue_for_moss_stopwords, all_shall_stop, moss_stop,
                   generations, start_time, past_key_values, i,
                   new_generated_id, now, yielded, fwd, error, loop, pure>>

Next == Start \/ Resume \/ InferFail \/ SampleFail \/ Step \/ Tick

Spec == Init /\ [][Next]_vars

\* The consumer keeps pulling and every forward pass returns or raises.
FairSpec == Spec /\ WF_vars(Start) /\ WF_vars(Resume)
                 /\ WF_vars(InferFail \/ SampleFail \/ Step)

\* Two generators of one client, interleaved at their yields.
NextTwoCalls == Next \/ OtherStart \/ CatFail

SpecTwoCalls == Init /\ [][NextTwoCalls]_vars

\* ----------------------------------------------------------------- claims
\* Tokens generated so far (per row).
NumGenerated == Len(input_ids[1]) - Len(prompt_ids[1])

\* The tokens generated so far of row r.
Generated(r) == SubSeq(input_ids[r], Len(prompt_ids[r]) + 1, Len(input_ids[r]))

\* C1: the loop makes at most max_iterations forward passes and, with a
\* consumer that keeps pulling, the run terminates.
C1_BoundedSteps == [](fwd <= max_iterations) /\ <>(pc \in Terminal)

\* C1 witness: a run that used all its iterations without a stop or a time-out.
C1_Witness ==
    /\ pc = "TRUNCATED"
    /\ max_iterations >= 2
    /\ fwd = max_iterations
    /\ \A r \in 1..bsz : ~moss_stop[r]

\* C2 as stated: every token appended has been yielded in a snapshot of the
\* full running sequence, whenever the generator is not in the middle of a step.
C2_EveryTokenYielded ==
    /\ Len(yielded) = NumGenerated
    /\ yielded # << >> => yielded[Len(yielded)] = input_ids

\* C2 amended: a step that does not end the run yields the full running
\* sequence, whose last column is the token just sampled; the token appended
\* by the step that breaks (STOPPED, TIMED_OUT) is not yielded.
C2_YieldUnlessBreak ==
    /\ pc \in {"STOPPED", "TIMED_OUT"} =>
          /\ Len(yielded) = NumGenerated - 1
          /\ yielded # << >> =>
                \A r \in 1..bsz :
                   yielded[Len(yielded)][r] =
                       SubSeq(input_ids[r], 1, Len(input_ids[r]) - 1)
    /\ pc \notin {"STOPPED", "TIMED_OUT"} =>
          /\ Len(yielded) = NumGenerated
          /\ yielded # << >> => yielded[Len(yielded)] = input_ids
    /\ pc = "yield" =>
          \A r \in 1..bsz :
             yielded[Len(yielded)][r][Len(input_ids[r])] = new_generated_id[r]

\* C2 witness: two steps have each yielded the full running sequence.
C2_Witness ==
    /\ pc = "yield"
    /\ Len(yielded) = 2
    /\ NumGenerated = 2
    /\ yielded[2] = input_ids

\* C3: once time.time() - start_time > max_time, no further snapshot is
\* yielded, and a forward pass that is under way is the last one: the step
\* it belongs to ends the run (the check is made at the end of every step).
C3_TimeBudget ==
    [][ (now - start_time > max_time) =>
          /\ yielded' = yielded
          /\ pc = "infer" =>
                /\ fwd' = fwd
                /\ pc' \in {"infer", "TIMED_OUT", "STOPPED", "FAILED"} ]_vars

\* C3 witness: a run ended by the time budget with iterations left and
\* snapshots delivered before.
C3_Witness ==
    /\ pc = "TIMED_OUT"
    /\ fwd < max_iterations
    /\ Len(yielded) >= 1
    /\ now - start_time > max_time

\* Whether sequence s ends in the (non-empty) sequence p.
EndsIn(s, p) ==
    /\ Len(s) >= Len(p)
    /\ SubSeq(s, Len(s) - Len(p) + 1, Len(s)) = p

\* C4: after every step a row's stopped flag is true exactly when the tokens
\* generated for the row so far end in the stop pattern; in particular it is
\* false while fewer than L tokens have been generated.
C4_StopDetector ==
    pc # "init" =>
       \A r \in 1..bsz : moss_stop[r] <=> EndsIn(Generated(r), moss_stopwords)

\* C5 as stated: when the stop pattern is the first sampled token of every
\* row, repeated to fill the window, the run is STOPPED after step 0 and the
\* consumer has received exactly one snapshot.
C5_OneSnapshotOnImmediateStop ==
    ( /\ NumGenerated = 1
      /\ \A r \in 1..bsz :
            moss_stopwords = [k \in 1..Len(moss_stopwords) |-> new_generated_id[r]] )
    => ( pc = "STOPPED" /\ Len(yielded) = 1 )

\* C5 amended: when the token sampled at step 0 makes the stop window of
\* every row equal to the stop pattern, the run is STOPPED right after that
\* step, after one forward pass, and the consumer has received no snapshot.
C5_NoSnapshotOnImmediateStop ==
    ( /\ NumGenerated = 1
      /\ \A r \in 1..bsz : queue_for_moss_stopwords[r] = moss_stopwords )
    => ( pc = "STOPPED" /\ yielded = << >> /\ fwd = 1 )

\* C5 witness: a batch of two rows stopped by the tokens of step 0.
C5_Witness ==
    /\ pc = "STOPPED"
    /\ bsz = 2
    /\ NumGenerated = 1
    /\ \A r \in 1..bsz : queue_for_moss_stopwords[r] = moss_stopwords
    /\ yielded = << >>

\* C6: a run that ends TRUNCATED (no stop, no time-out) has yielded exactly
\* max_iterations snapshots; the k-th has length len(prompt) + k in every row,
\* starts with the prompt and extends the (k-1)-th by one token.
C6_TruncatedSnapshots ==
    pc = "TRUNCATED" =>
       /\ Len(yielded) = max_iterations
       /\ \A k \in 1..Len(yielded) :
             /\ Len(yielded[k]) = Len(prompt_ids)
             /\ \A r \in 1..Len(prompt_ids) :
                   /\ Len(yielded[k][r]) = Len(prompt_ids[r]) + k
                   /\ SubSeq(yielded[k][r], 1, Len(prompt_ids[r])) = prompt_ids[r]
                   /\ k > 1 =>
                         SubSeq(yielded[k][r], 1, Len(yielded[k][r]) - 1)
                             = yielded[k - 1][r]

\* C6 witness: a truncated run of three iterations, three snapshots.
C6_Witness ==
    /\ pc = "TRUNCATED"
    /\ max_iterations = 3
    /\ Len(yielded) = 3
    /\ Len(yielded[3][1]) = Len(prompt_ids[1]) + 3

\* C7: a row's stopped flag, once true, stays true for the rest of the run.
C7_StopMonotonic ==
    [][ \A r \in 1..Len(moss_stop) : moss_stop[r] => moss_stop'[r] ]_vars

\* C7 witness: a row whose flag is set although its window, after later
\* tokens, no longer equals the stop pattern.
C7_Witness ==
    /\ pc = "yield"
    /\ \E r \in 1..bsz :
          /\ moss_stop[r]
          /\ queue_for_moss_stopwords[r] # moss_stopwords

\* C8: in every state of a started run the token sequence and the attention
\* mask of a row have the same length and the row's stop window has the
\* length of the stop pattern; a step that appends a token drops the oldest
\* entry of the window and appends that token.
C8_ShapesAndFifo ==
    /\ [](\A r \in 1..Len(input_ids) :
             /\ Len(input_ids[r]) = Len(attention_mask[r])
             /\ pc # "init" =>
                   Len(queue_for_moss_stopwords[r]) = Len(moss_stopwords))
    /\ [][ input_ids' # input_ids =>
             \A r \in 1..Len(input_ids) :
                queue_for_moss_stopwords'[r] =
                    Append(Tail(queue_for_moss_stopwords[r]),
                           input_ids'[r][Len(input_ids'[r])]) ]_vars

\* C8 witness: a batch of two rows with a window of length 2, after two steps.
C8_Witness ==
    /\ pc = "yield"
    /\ bsz = 2
    /\ Len(moss_stopwords) = 2
    /\ NumGenerated = 2
    /\ \A r \in 1..bsz : queue_for_moss_stopwords[r] = Generated(r)

\* C9: a failure of infer_ ends the run with the error given to the consumer:
\* the step that fails yields nothing and starts no forward pass, a forward
\* pass is started only by the consumer's next() (never while one is under
\* way), nothing runs after the failure, and the snapshots already yielded
\* stay as they are.
C9_InferFailureFatal ==
    [][ /\ pc # "FAILED"
        /\ (error' = "infer_" /\ error # "infer_") =>
              (pc' = "FAILED" /\ yielded' = yielded /\ fwd' = fwd)
        /\ fwd' # fwd => (pc \in {"init", "yield"} /\ fwd' = fwd + 1)
        /\ Len(yielded') >= Len(yielded)
        /\ SubSeq(yielded', 1, Len(yielded)) = yielded ]_vars

\* C9 witness: infer_ failed in a later step, after snapshots were yielded.
C9_Witness ==
    /\ pc = "FAILED"
    /\ error = "infer_"
    /\ Len(yielded) >= 1
    /\ fwd = Len(yielded) + 1

\* The sampling parameters section 7 of the specification calls invalid.
InvalidSampling == temperature <= 0 \/ top_p <= 0 \/ top_p > 10 \/ top_k < 0

\* C10: with invalid sampling parameters no forward pass is invoked and no
\* snapshot is yielded.
C10_InvalidConfigFailsFast ==
    InvalidSampling => (fwd = 0 /\ yielded = << >> /\ pc \in {"init", "FAILED"})

\* C11: in every step of a call the batch size the step reads (self.bsz) is
\* the one the call set itself, the number of rows of its own sequence, and
\* no step fails on a size another call has set.
C11_PrivateState ==
    pc \notin {"init", "filter", "penalty", "forward"} =>
       /\ bsz = Len(input_ids)
       /\ error # "cat"

\* ------------------------------------------------ top_k_top_p_filtering
\* A logits row is kept as the row of the weights exp(logit), up to a common
\* factor: the order of the weights is the order of the logits, softmax is
\* weight / sum of the weights, and the weight 0 is the logit -inf.
NumLogits == 3
MaxWeight == 3

LogitRows == [1..NumLogits -> 1..MaxWeight]

\* top_k: disabled, within the row, larger than the row.
TopKs == {0, 1, 2, NumLogits + 1}

\* top_p in tenths; 10 is disabled.
TopPs == {0, 3, 5, 8, 10}

\* filter_value = -float("Inf")
FilterValue == 0

\* torch.topk(logits, k)[0][..., -1]: the k-th largest value of the row.
KthLargest(row, k) ==
    CHOOSE v \in { row[t] : t \in 1..Len(row) } :
       /\ Cardinality({ t \in 1..Len(row) : row[t] > v }) < k
       /\ Cardinality({ t \in 1..Len(row) : row[t] >= v }) >= k

\* logits[logits < kth] = filter_value
TopKMask(row, k) ==
    [t \in 1..Len(row) |-> IF row[t] < KthLargest(row, k) THEN FilterValue ELSE row[t]]

\* The orders torch.sort(logits, descending=True) can give (ties in any order).
SortOrders(row) ==
    { p \in [1..Len(row) -> 1..Len(row)] :
        /\ \A a, b \in 1..Len(row) : a # b => p[a] # p[b]
        /\ \A a \in 1..(Len(row) - 1) : row[p[a]] >= row[p[a + 1]] }

\* torch.cumsum(torch.softmax(sorted_logits)) at place j, times the sum of the
\* weights.
RECURSIVE CumWeight(_, _, _)
CumWeight(row, perm, j) ==
    IF j = 0 THEN 0 ELSE row[perm[j]] + CumWeight(row, perm, j - 1)

\* cumulative_probs > top_p, with the first min_tokens_to_keep places cleared
\* if min_tokens_to_keep > 1.
SortedRemove(row, perm, p, keep) ==
    [j \in 1..Len(row) |->
        IF keep > 1 /\ j <= keep
        THEN FALSE
        ELSE 10 * CumWeight(row, perm, j) > p * CumWeight(row, perm, Len(row))]

\* Mutant of ShiftRight: the mask is not shifted and place 0 not cleared.
NoShift(rem) == rem

\* rem[..., 1:] = rem[..., :-1].clone(); rem[..., 0] = 0
ShiftRight(rem) == [j \in 1..Len(rem) |-> IF j = 1 THEN FALSE ELSE rem[j - 1]]

\* rem.scatter(1, sorted_indices, rem)
Scatter(rem, perm) ==
    [t \in 1..Len(rem) |-> rem[CHOOSE j \in 1..Len(rem) : perm[j] = t]]

\* logits[indices_to_remove] = filter_value
TopPMask(row, perm, p, keep) ==
    LET rem == Scatter(ShiftRight(SortedRemove(row, perm, p, keep)), perm)
    IN  [t \in 1..Len(row) |-> IF rem[t] THEN FilterValue ELSE row[t]]

\* No generator is involved.
LoopIdle ==
    /\ prompt_ids = << >>
    /\ prompt_mask = << >>
    /\ moss_stopwords = << >>
    /\ max_iterations = 0
    /\ max_time = 0
    /\ temperature = 7
    /\ bsz = 0
    /\ seqlen = 0
    /\ attention_mask = << >>
    /\ last_token_indices = << >>
    /\ queue_for_moss_stopwords = << >>
    /\ all_shall_stop = << >>
    /\ moss_stop = << >>
    /\ generations = << >>
    /\ start_time = 0
    /\ past_key_values = None
    /\ i = 0
    /\ new_generated_id = << >>
    /\ now = 0
    /\ yielded = << >>
    /\ fwd = 0
    /\ error = "none"
    /\ regulation_start = DefaultRegulationStart
    /\ range_it = 0
    /\ cur_len = 0
    /\ logit_pos = << >>
    /\ infer_call = << >>

\* A call of top_k_top_p_filtering on one row.
InitFilter ==
    /\ pc = "filter"
    /\ LoopIdle
    /\ input_ids = << >>
    /\ model_logits \in LogitRows
    /\ logits = model_logits
    /\ top_k \in TopKs
    /\ top_p \in TopPs
    /\ min_tokens_to_keep \in {1, 2}
    /\ sorted_indices = << >>
    /\ repetition_penalty = 11
    /\ data = << >>
    /\ preds = << >>
    /\ res = << >>

\* torch.topk raises: k is larger than the row.
TopKFail ==
    /\ pc = "filter"
    /\ top_k > Len(logits)
    /\ pc' = "FAILED"
    /\ error' = "topk"
    /\ UNCHANGED <<params, locals, now, yielded, fwd, loop, pure>>

\* The whole of top_k_top_p_filtering.
Filter ==
    /\ pc = "filter"
    /\ top_k <= Len(logits)
    /\ LET afterk == IF top_k > 0 THEN TopKMask(logits, top_k) ELSE logits
       IN  IF top_p < 10
           THEN \E perm \in SortOrders(afterk) :
                   /\ sorted_indices' = perm
                   /\ logits' = TopPMask(afterk, perm, top_p, min_tokens_to_keep)
           ELSE /\ sorted_indices' = sorted_indices
                /\ logits' = afterk
    /\ pc' = "filtered"
    /\ UNCHANGED <<params, locals, now, yielded, fwd, error, loop,
                   model_logits, min_tokens_to_keep, repetition_penalty,
                   data, preds, res>>

NextFilter == Filter \/ TopKFail

SpecFilter == InitFilter /\ [][NextFilter]_vars

\* Place j of the sorted row is kept (not masked).
Kept(j) == logits[sorted_indices[j]] # FilterValue

\* C12 as stated: with top_k = 0 and top_p < 1 the top token is kept and the
\* kept tokens are the shortest prefix of the sorted row whose cumulative
\* probability is >= top_p.
C12_ShortestPrefixReaching ==
    (pc = "filtered" /\ top_k = 0 /\ top_p < 10 /\ min_tokens_to_keep = 1) =>
       /\ Kept(1)
       /\ \E n \in 1..Len(logits) :
             /\ \A j \in 1..Len(logits) : Kept(j) <=> j <= n
             /\ 10 * CumWeight(model_logits, sorted_indices, n)
                   >= top_p * CumWeight(model_logits, sorted_indices, Len(logits))
             /\ \A j \in 1..(n - 1) :
                   10 * CumWeight(model_logits, sorted_indices, j)
                       < top_p * CumWeight(model_logits, sorted_indices, Len(logits))

\* C12 amended: with top_k = 0, top_p < 1 and min_tokens_to_keep = 1 the top
\* token is kept, the kept logits are unchanged, and the kept tokens are the
\* shortest prefix of the sorted row whose cumulative probability exceeds
\* top_p: a token at which the cumulative probability equals top_p is kept
\* and so is the token after it.
C12_ShortestPrefixExceeding ==
    (pc = "filtered" /\ top_k = 0 /\ top_p < 10 /\ min_tokens_to_keep = 1) =>
       /\ Kept(1)
       /\ \A t \in 1..Len(logits) : model_logits[sorted_indices[1]] >= model_logits[t]
       /\ \A t \in 1..Len(logits) : logits[t] \in {FilterValue, model_logits[t]}
       /\ \E n \in 1..Len(logits) :
             /\ \A j \in 1..Len(logits) : Kept(j) <=> j <= n
             /\ 10 * CumWeight(model_logits, sorted_indices, n)
                   > top_p * CumWeight(model_logits, sorted_indices, Len(logits))
             /\ \A j \in 1..(n - 1) :
                   10 * CumWeight(model_logits, sorted_indices, j)
                       <= top_p * CumWeight(model_logits, sorted_indices, Len(logits))

\* C12 witness: probabilities 1/2, 1/4, 1/4 and top_p = 0.5; the cumulative
\* probability is top_p at the first token and two tokens are kept.
C12_Witness ==
    /\ pc = "filtered"
    /\ top_k = 0
    /\ top_p = 5
    /\ min_tokens_to_keep = 1
    /\ model_logits = <<2, 1, 1>>
    /\ Kept(1) /\ Kept(2) /\ ~Kept(3)

\* C13: with top_p = 1 and any top_k > 0 the filter keeps at least
\* min_tokens_to_keep entries of the row and masks exactly the entries that
\* are strictly below the k-th largest value (entries tied with it are kept).
C13_TopKKeepsMinTokens ==
    (pc = "filtered" /\ top_k > 0 /\ top_p = 10) =>
       /\ Cardinality({ t \in 1..Len(logits) : logits[t] # FilterValue })
             >= min_tokens_to_keep
       /\ \A t \in 1..Len(logits) :
             logits[t] = FilterValue <=>
                Cardinality({ u \in 1..Len(logits) :
                                model_logits[u] > model_logits[t] }) >= top_k

\* ------------------------------------------------- repetition penalty
\* Here a logit is a fraction <<numerator, denominator>> with a positive
\* denominator, so that products and quotients by the penalty are exact; the
\* penalty is kept in tenths, as temperature and top_p are.
SignedLogits == { <<v, 1>> : v \in (0 - 1)..1 }

PenaltyRows == [1..NumLogits -> SignedLogits]

\* Sequences so far: one row of one to three token ids, repeats included.
TokenRows ==
    UNION { [1..n -> 1..NumLogits] : n \in {1, 2, 3} }

\* Below 1, 1 (disabled), the default 1.1, and 2.
Penalties == {9, 10, 11, 20}

\* logits.gather(1, input_ids), on one row
Gather(row, ids) == [j \in 1..Len(ids) |-> row[ids[j]]]

\* torch.where(score < 0, score * repetition_penalty, score / repetition_penalty)
Where(v, pen) ==
    IF v[1] < 0 THEN <<v[1] * pen, v[2] * 10>> ELSE <<v[1] * 10, v[2] * pen>>

\* Mutant of ScatterInto: the penalty is applied in place once per position
\* of the sequence, so a repeated id is penalised repeatedly.
RECURSIVE InPlace(_, _, _)
InPlace(row, ids, n) ==
    IF n = 0
    THEN row
    ELSE LET prev == InPlace(row, ids, n - 1)
         IN  [prev EXCEPT ![ids[n]] = Where(prev[ids[n]], repetition_penalty)]

ScatterEach(row, ids, score) == { InPlace(row, ids, Len(ids)) }

\* logits.scatter_(1, input_ids, score), on one row: the rows it can leave.
\* Where an id repeats, torch does not say which of the writes lands last.
ScatterInto(row, ids, score) ==
    { r \in [1..Len(row) -> { row[t] : t \in 1..Len(row) }
                              \cup { score[j] : j \in 1..Len(score) }] :
        \A t \in 1..Len(row) :
           IF \E j \in 1..Len(ids) : ids[j] = t
           THEN \E j \in 1..Len(ids) : ids[j] = t /\ r[t] = score[j]
           ELSE r[t] = row[t] }

\* The logits of a step, before the penalty is applied.
InitPenalty ==
    /\ pc = "penalty"
    /\ LoopIdle
    /\ \E ids \in TokenRows : input_ids = <<ids>>
    /\ \E row \in PenaltyRows : model_logits = <<row>>
    /\ logits = model_logits
    /\ repetition_penalty \in Penalties
    /\ top_k = 0
    /\ top_p = 10
    /\ min_tokens_to_keep = 1
    /\ sorted_indices = << >>
    /\ data = << >>
    /\ preds = << >>
    /\ res = << >>

\* if repetition_penalty > 1: gather, where, scatter_
RepetitionPenalty ==
    /\ pc = "penalty"
    /\ IF repetition_penalty > 10
       THEN \E out \in ScatterInto(logits[1], input_ids[1],
                             [j \in 1..Len(input_ids[1]) |->
                                 Where(Gather(logits[1], input_ids[1])[j],
                                       repetition_penalty)]) :
               logits' = <<out>>
       ELSE logits' = logits
    /\ pc' = "penalised"
    /\ UNCHANGED <<params, locals, now, yielded, fwd, error, loop,
                   model_logits, sorted_indices, min_tokens_to_keep,
                   repetition_penalty, data, preds, res>>

NextPenalty == RepetitionPenalty

SpecPenalty == InitPenalty /\ [][NextPenalty]_vars

\* The token id t occurs in row r of the sequence.
Occurs(r, t) == \E j \in 1..Len(input_ids[r]) : input_ids[r][j] = t

StopPatternsOrEmpty == StopPatterns \cup { << >> }

InitAnyStop == InitOf(StopPatternsOrEmpty, {DefaultRegulationStart})

SpecAnyStop == InitAnyStop /\ [][Next]_vars

\* C15: a client whose stop pattern is empty is rejected before any decode
\* step, so no forward pass is ever started with a stop pattern of length 0.
C15_EmptyPatternRejected ==
    Len(moss_stopwords) = 0 => fwd = 0

\* The 0-based position of the last real (mask = 1) token of a prompt row.
LastReal(m) ==
    (CHOOSE k \in 1..Len(m) :
        m[k] = 1 /\ \A l \in (k + 1)..Len(m) : m[l] = 0) - 1

\* C16: the logits of step 0 are taken, in every row, at the position of the
\* row's last real token, and the logits of every later step at the last
\* position of what the forward pass returned.
C16_LogitsAtLastRealToken ==
    logit_pos # << >> =>
       \A r \in 1..Len(logit_pos) :
          IF cur_len = 0
          THEN logit_pos[r] = LastReal(prompt_mask[r])
          ELSE logit_pos[r] = Len(infer_call.input_ids[r]) - 1

\* ------------------------------------------- regulation from the first step
\* regulation_start = 0: the inner loop over the stop-pattern ids runs, and
\* rebinds i, at every step after step 0.
InitRegulation == InitOf(StopPatterns, {0})

SpecRegulation == InitRegulation /\ [][Next]_vars

\* C17: the forward pass of step 0 is given the whole prompt, the prompt's
\* mask and no cache; the forward pass of a later step is given one token per
\* row, the one sampled at the step before, with the cache that step's
\* forward pass returned and the full running mask; the tokens given to the
\* model so far, this call's included, are the running sequence.
C17_ForwardPassArguments ==
    pc = "infer" =>
       /\ i = range_it - 1
       /\ IF i = 0
          THEN /\ infer_call.input_ids = prompt_ids
               /\ infer_call.attention_mask = prompt_mask
               /\ infer_call.past_key_values = None
          ELSE /\ \A r \in 1..Len(input_ids) :
                     /\ infer_call.input_ids[r] = <<input_ids[r][Len(input_ids[r])]>>
                     /\ infer_call.input_ids[r] = <<new_generated_id[r]>>
                     /\ Len(infer_call.attention_mask[r]) = Len(input_ids[r])
                     /\ Len(infer_call.past_key_values[r]) = Len(input_ids[r]) - 1
               /\ infer_call.attention_mask = attention_mask
               /\ infer_call.past_key_values = past_key_values
       /\ Returned = input_ids

\* C17 witness: step 2 is under way after the inner loop of step 1 has
\* rebound i from 1 to the stop-pattern id 2.
C17_Witness ==
    /\ pc = "infer"
    /\ regulation_start = 0
    /\ cur_len = 1
    /\ moss_stopwords = <<2>>
    /\ i = 2
    /\ Len(infer_call.input_ids[1]) = 1
    /\ Len(prompt_ids[1]) = 2

\* C18: a step that samples ends the run as STOPPED exactly if every row's
\* flag in all_shall_stop is then true, also if the time budget is exceeded
\* at that step; otherwise it ends it as TIMED_OUT if the budget is exceeded
\* and yields if not; and it appends one token to every row, the rows whose
\* flag was already true included.
C18_StoppedOnlyWhenAllRows ==
    [][(pc = "infer" /\ pc' \notin {"infer", "FAILED"}) =>
          /\ \A r \in 1..Len(input_ids) :
                /\ Len(input_ids'[r]) = Len(input_ids[r]) + 1
                /\ moss_stop[r] => moss_stop'[r]
          /\ pc' = "STOPPED" <=> \A r \in 1..Len(input_ids) : all_shall_stop'[r]
          /\ pc' = "TIMED_OUT" <=>
                /\ \E r \in 1..Len(input_ids) : ~all_shall_stop'[r]
                /\ now - start_time > max_time
          /\ pc' = "yield" <=>
                /\ \E r \in 1..Len(input_ids) : ~all_shall_stop'[r]
                /\ ~(now - start_time > max_time)]_vars

\* C18 witness: a batch of two rows with the stop pattern <<1>>; row 1
\* stopped at step 0 and was given a token at step 1, at which row 2 stopped
\* and the time budget was exceeded as well.
C18_Witness ==
    /\ pc = "STOPPED"
    /\ Len(input_ids) = 2
    /\ moss_stopwords = <<1>>
    /\ Generated(1) = <<1, 2>>
    /\ Generated(2) = <<2, 1>>
    /\ now - start_time > max_time

\* C19: the forward passes started are never more than the snapshots handed
\* to the consumer plus one, and a forward pass is started only by a next()
\* of the consumer (the first one, or one on the generator suspended at the
\* yield, every snapshot so far having been handed over): a consumer that
\* does not pull causes no forward pass.
C19_PullBasedBackpressure ==
    /\ [](fwd <= Len(yielded) + 1)
    /\ [][fwd' # fwd =>
            /\ pc \in {"init", "yield"}
            /\ pc' = "infer"
            /\ fwd = Len(yielded)
            /\ fwd' = fwd + 1
            /\ yielded' = yielded]_vars

\* C19 witness: the third forward pass is under way, two snapshots having
\* been consumed.
C19_Witness ==
    /\ pc = "infer"
    /\ fwd = 3
    /\ Len(yielded) = 2
    /\ i = 2

\* ---------------------------------------------------------------- forward
\* Text is a sequence of characters. The tokenizer is the best case for
\* forward: one token per character, and decoding what was encoded gives the
\* text back.
Alphabet == <<"a", "b", "c">>

Texts(lens) == UNION { [1..n -> 1..Len(Alphabet)] : n \in lens }

\* MOSS_TOKENIZER.decode of one row of token ids
Decode(ids) == [j \in 1..Len(ids) |-> Alphabet[ids[j]]]

\* MOSS_TOKENIZER.batch_decode(outputs)
BatchDecode(outputs) == [r \in 1..Len(outputs) |-> Decode(outputs[r])]

\* str.lstrip(chars): leading characters are dropped as long as they are
\* among the characters of chars.
RECURSIVE LStrip(_, _)
LStrip(s, chars) ==
    IF s # << >> /\ \E j \in 1..Len(chars) : chars[j] = Head(s)
    THEN LStrip(Tail(s), chars)
    ELSE s

\* forward has been given the prompt text data and has pulled a snapshot
\* (here input_ids): the prompt's tokens followed by one to three generated
\* tokens.
InitForward ==
    /\ pc = "forward"
    /\ LoopIdle
    /\ \E prompt \in Texts({1, 2}) : \E gen \in Texts({1, 2, 3}) :
          /\ data = Decode(prompt)
          /\ input_ids = <<prompt \o gen>>
    /\ preds = << >>
    /\ res = << >>
    /\ logits = << >>
    /\ model_logits = << >>
    /\ sorted_indices = << >>
    /\ min_tokens_to_keep = 1
    /\ repetition_penalty = 11
    /\ top_k = 40
    /\ top_p = 8

\* The body of forward's loop for one snapshot, up to its yield of res[0].
Forward ==
    /\ pc = "forward"
    /\ preds' = BatchDecode(input_ids)
    /\ res' = [r \in 1..Len(input_ids) |-> LStrip(BatchDecode(input_ids)[r], data)]
    /\ pc' = "forwarded"
    /\ UNCHANGED <<params, locals, now, yielded, fwd, error, loop, logits,
                   model_logits, sorted_indices, min_tokens_to_keep,
                   repetition_penalty, data>>

NextForward == Forward

SpecForward == InitForward /\ [][NextForward]_vars

\* C20: the text forward yields for a snapshot is the decoded snapshot
\* without the prompt text at its front: the prompt text followed by the
\* yielded text is the decoded snapshot.
C20_PromptRemovedExactly ==
    pc = "forwarded" => data \o res[1] = preds[1]

====
